---------------------------- MODULE Spec2Model ----------------------------
(***************************************************************************)
(* Key objects and signing pipeline of optigatrust (crypto.py and the      *)
(* older asymmetric.py).  One key object is followed through its life:     *)
(* construction, generate calls, sign calls.  The secure element behind    *)
(* the ctypes api is an external collaborator: every call to it returns a  *)
(* nondeterministic status and nondeterministic output bytes.              *)
(*                                                                         *)
(* Python values are represented as follows.                               *)
(*   bytes / bytearray   a sequence of integers in 0..255                  *)
(*   Optional[x]         <<>> for None, <<x>> for a present value          *)
(*   an exception        last.outcome = "raised", last.exc the Python      *)
(*                       exception type, last.kind the error of the design *)
(*                       taxonomy, last.code the status it carries         *)
(***************************************************************************)
EXTENDS Integers, Sequences, FiniteSets, TLC

VARIABLES
    obj,            \* the key object: <<>> before construction, else <<record>>
    last,           \* the last operation: its inputs and its outcome
    call            \* the transport call the last operation issued, <<>> if none

vars == <<obj, last, call>>

None == <<>>
Some(x) == <<x>>

-----------------------------------------------------------------------------
(* Bounds of the model.                                                    *)

\* the chip reports public keys that are empty or MaxPubLen bytes long
MaxPubLen == 2
\* the chip's output bytes follow one of the patterns 0..MaxSeed
MaxSeed == 1
\* a requested key usage is a list of at most MaxUsageLen entries
MaxUsageLen == 2
\* signature lengths within SigSpread of 0, of 128 and of the buffer capacity
SigSpread == 1

\* random is asked for -1 .. MaxRandomLen bytes
MaxRandomLen == 8

-----------------------------------------------------------------------------
(* Enumerations of the optigatrust package the two modules import.         *)

\* key_id.ECC_KEY_E0F0 .. ECC_KEY_E0F3
ECC_KEY_IDS == {57584, 57585, 57586, 57587}
\* Chip.session_id_values: the session contexts 0xE100 .. 0xE103
session_id_values == {57600, 57601, 57602, 57603}
\* the two RSA slots 0xe0fc and 0xe0fd
RSA_KEY_E0FC == 57596
RSA_KEY_E0FD == 57597

\* key_usage.<member>.value
KeyUsageValue(ku) ==
    CASE ku = "AUTH"    -> 1
      [] ku = "ENCRYPT" -> 2
      [] ku = "SIGN"    -> 16
      [] ku = "KEY_AGR" -> 32

\* m3.Curves.<member>.value
CurveValue(member) ==
    CASE member = "SEC_P256R1"       -> 3
      [] member = "SEC_P384R1"       -> 4
      [] member = "SEC_P521R1"       -> 5
      [] member = "BRAINPOOL_P256R1" -> 19
      [] member = "BRAINPOOL_P384R1" -> 21
      [] member = "BRAINPOOL_P512R1" -> 22

\* Chip.curves_values of the m3 chip: the values of m3.Curves
curves_values == {3, 4, 5, 19, 21, 22}

\* rng.TRNG.value, rng.DRNG.value
RngValue(member) == IF member = "TRNG" THEN 0 ELSE 1

-----------------------------------------------------------------------------
(* Inputs the callers are modelled to pass.  The life of a key object is    *)
(* explored with a few inputs of every kind (Spec); the constructors, the  *)
(* usage encoding, the ECDSA encoding, the RSA operations and random are   *)
(* explored over their whole input ranges with the other inputs held to    *)
(* one value (SpecSlots, SpecUsage, SpecEcdsa, SpecRsa, SpecRandom).       *)

CurveNames == {"secp256r1", "secp384r1", "secp521r1",
               "brainpoolp256r1", "brainpoolp384r1", "brainpoolp512r1"}
\* with a curve name the registry does not know
CurveInputs == CurveNames \cup {"secp256k1"}

\* usage flags a caller may name; the last one is in no table
UsageFlagInputs == {"key_agreement", "authentication", "encryption",
                    "signature", "host_fw_update"}

\* all lists of at most n entries drawn from S
RECURSIVE ListsUpTo(_, _)
ListsUpTo(S, n) ==
    IF n = 0 THEN {<<>>}
    ELSE LET shorter == ListsUpTo(S, n - 1)
         IN  shorter \cup {Append(l, e) : l \in shorter, e \in S}

\* the list of the flags of a set, in one fixed order
RECURSIVE ListOf(_)
ListOf(S) ==
    IF S = {} THEN <<>>
    ELSE LET e == CHOOSE x \in S : TRUE IN <<e>> \o ListOf(S \ {e})

\* flags for the lists with repetition: one both kinds allow, one only RSA
\* allows, one neither allows
RepeatedFlagInputs == {"signature", "encryption", "host_fw_update"}

\* key_usage arguments: None, every set of flags as a list, and every list
\* of at most MaxUsageLen of the flags of RepeatedFlagInputs
UsageInputs ==
    {None} \cup {Some(ListOf(S)) : S \in SUBSET UsageFlagInputs}
           \cup {Some(l) : l \in ListsUpTo(RepeatedFlagInputs, MaxUsageLen)}

\* payloads: 'h\xc3\xa9' as bytes and as bytearray, the text 'h\xe9', an int
PayloadInputs ==
    { [type |-> "bytes",     value |-> <<104, 195, 169>>],
      [type |-> "bytearray", value |-> <<104, 195, 169>>],
      [type |-> "str",       value |-> <<104, 233>>],
      [type |-> "int",       value |-> <<>>] }

KeySizeInputs == {512, 1024, 2048}
HashInputs == {"sha256", "sha384", "sha512"}

\* status codes the transport returns: 0, and two fault codes
HwStatus == {0, 263, 32775}

\* every slot id from 0xE0E8 to 0xE10B: the legal sets and their surroundings
SlotRange == 57576..57611

\* the arguments of random: lengths from -1 on; True, False, and two values
\* that are not the object True
RandomLenInputs == (-1)..MaxRandomLen
TrngInputs == {"True", "False", "1", "None"}

\* the inputs of Spec
ShortLens == {0, MaxPubLen}
KeyIdInputs == {57583, 57584, 57603, 57596, 57597}
InitCurveInputs == {"secp256r1", "secp256k1"}
GenCurveInputs == {"secp256r1", "secp521r1", "secp256k1"}
GenUsageInputs == {None, Some(<<"signature">>), Some(<<"host_fw_update">>)}

-----------------------------------------------------------------------------
(* ctypes integers and byte strings.                                       *)

c_ubyte(n)  == n % 256
c_ushort(n) == n % 65536
\* n modulo 2^32, written in 16-bit halves
c_uint(n)   == (n % 65536) + 65536 * ((n \div 65536) % 65536)

\* bytes(n): n zero bytes
ZeroBytes(n) == [i \in 1..n |-> 0]

\* the first n bytes of a buffer (memmove of n bytes into a fresh array)
Take(buf, n) == [i \in 1..n |-> buf[i]]

RECURSIVE SumSeq(_)
SumSeq(q) == IF q = <<>> THEN 0 ELSE Head(q) + SumSeq(Tail(q))

\* str.encode(): UTF-8 of one code point
Utf8Char(cp) ==
    IF cp < 128 THEN <<cp>>
    ELSE IF cp < 2048 THEN <<192 + (cp \div 64), 128 + (cp % 64)>>
    ELSE IF cp < 65536 THEN
        <<224 + (cp \div 4096), 128 + ((cp \div 64) % 64), 128 + (cp % 64)>>
    ELSE <<240 + (cp \div 262144), 128 + ((cp \div 4096) % 64),
           128 + ((cp \div 64) % 64), 128 + (cp % 64)>>

RECURSIVE Utf8(_)
Utf8(text) == IF text = <<>> THEN <<>> ELSE Utf8Char(Head(text)) \o Utf8(Tail(text))

\* hashlib.<alg>(msg).digest(): an ideal hash, known by its algorithm and preimage
Digest(alg, msg) == [alg |-> alg, msg |-> msg]

-----------------------------------------------------------------------------
(* The secure element.  What it writes into an output buffer is one of a   *)
(* few byte patterns; the buffer is zero beyond what was written.          *)

HwByte(seed, i) == (83 * seed + 7 * i + 1) % 256
HwPrivByte(seed, i) == (29 * seed + 11 * i + 128) % 256

\* a zeroed buffer of cap bytes after the chip wrote n bytes of pattern seed
HwFill(cap, seed, n) == [i \in 1..cap |-> IF i <= n THEN HwByte(seed, i) ELSE 0]
HwFillPriv(cap, seed, n) == [i \in 1..cap |-> IF i <= n THEN HwPrivByte(seed, i) ELSE 0]

\* responses to a key pair generation: status, pattern, reported public key
\* length; what a failed call leaves in the buffers is read by no one
GenResponses ==
    [ret : {0}, seed : 0..MaxSeed, plen : {0, MaxPubLen}]
        \cup [ret : HwStatus \ {0}, seed : {0}, plen : {0}]

\* one successful response and one fault
OneGenResponses == {[ret |-> 0, seed |-> 0, plen |-> MaxPubLen],
                    [ret |-> 263, seed |-> 0, plen |-> 0]}

\* reported lengths of a signature written into a buffer of cap bytes
\* lengths within SigSpread of 0, of 128 and of the capacity cap
SigLens(cap) ==
    {l \in 0..cap : \/ l <= SigSpread
                    \/ l >= 128 - SigSpread /\ l <= 128 + SigSpread
                    \/ l >= cap - SigSpread}

\* responses to a sign call with a buffer of cap bytes; lens are the lengths
\* the chip is modelled to report
SignResponses(cap, lens) ==
    [ret : {0}, seed : 0..MaxSeed, slen : {l \in lens : l <= cap}]
        \cup [ret : HwStatus \ {0}, seed : {0}, slen : {0}]

\* responses to a request for random bytes: status and pattern
RandomResponses == [ret : HwStatus, seed : 0..MaxSeed]

\* the lengths an RSA signature is modelled to have: empty, one byte, the
\* 128 and 256 bytes of a 1024-bit and a 2048-bit key, and the capacity of
\* the buffer and one less
RsaLens == {0, 1, 128, 256, 319, 320}

\* the lengths an ECDSA signature is modelled to have: around 0, around 128
\* and around the capacity of each of the three buffer sizes
EcdsaLens == SigLens(72) \cup SigLens(104) \cup SigLens(136)

-----------------------------------------------------------------------------
(* Algorithm registry: the tables the operations look their parameters up  *)
(* in.                                                                     *)

\* _str2curve._map: curve name -> member of m3.Curves
str2curve_map ==
    [n \in CurveNames |->
        CASE n = "secp256r1"       -> "SEC_P256R1"
          [] n = "secp384r1"       -> "SEC_P384R1"
          [] n = "secp521r1"       -> "SEC_P521R1"
          [] n = "brainpoolp256r1" -> "BRAINPOOL_P256R1"
          [] n = "brainpoolp384r1" -> "BRAINPOOL_P384R1"
          [] n = "brainpoolp512r1" -> "BRAINPOOL_P512R1"]

\* _str2curve(curve_str, return_value=True): <<>> stands for the ValueError
str2curve(curve_str) ==
    IF curve_str \in DOMAIN str2curve_map
    THEN Some(CurveValue(str2curve_map[curve_str]))
    ELSE None

\* the digest table with sha256 for every curve
ecdsa_map_Sha256Only ==
    [n \in CurveNames |-> [len |-> 32, name |-> "sha256"]]

\* ecdsa_sign._map: curve name -> [digest length, digest name]
ecdsa_map ==
    [n \in CurveNames |->
        CASE n \in {"secp256r1", "brainpoolp256r1"} -> [len |-> 32, name |-> "sha256"]
          [] n \in {"secp384r1", "brainpoolp384r1"} -> [len |-> 48, name |-> "sha384"]
          [] n \in {"secp521r1", "brainpoolp512r1"} -> [len |-> 64, name |-> "sha512"]]

\* len(s) in ecdsa_sign: the size of the raw signature buffer
EcdsaBufferLen(digest_len) == (digest_len * 2 + 2) + 6

\* the ECC table holding 'encryption' as the RSA table does
ecc_allowed_key_usage_WithEncryption ==
    [e \in {"key_agreement", "authentication", "encryption", "signature"} |->
        CASE e = "key_agreement"  -> "KEY_AGR"
          [] e = "authentication" -> "AUTH"
          [] e = "encryption"     -> "ENCRYPT"
          [] e = "signature"      -> "SIGN"]

\* ECCKey.generate._allowed_key_usage
ecc_allowed_key_usage ==
    [e \in {"key_agreement", "authentication", "signature"} |->
        CASE e = "key_agreement"  -> "KEY_AGR"
          [] e = "authentication" -> "AUTH"
          [] e = "signature"      -> "SIGN"]

\* the RSA table with 'encryption' bound to the member of 'authentication'
rsa_allowed_key_usages_Slip ==
    [e \in {"key_agreement", "authentication", "encryption", "signature"} |->
        CASE e = "key_agreement"  -> "KEY_AGR"
          [] e = "authentication" -> "AUTH"
          [] e = "encryption"     -> "AUTH"
          [] e = "signature"      -> "SIGN"]

\* RSAKey.generate._allowed_key_usages
rsa_allowed_key_usages ==
    [e \in {"key_agreement", "authentication", "encryption", "signature"} |->
        CASE e = "key_agreement"  -> "KEY_AGR"
          [] e = "authentication" -> "AUTH"
          [] e = "encryption"     -> "ENCRYPT"
          [] e = "signature"      -> "SIGN"]

\* generate's loop over a key_usage list: the members collected so far, or
\* the rejection of the first entry the table does not hold
RECURSIVE UsageLoop(_, _, _)
UsageLoop(allowed, entries, acc) ==
    IF entries = <<>> THEN [ok |-> TRUE, list |-> acc]
    ELSE IF Head(entries) \notin DOMAIN allowed THEN [ok |-> FALSE, list |-> acc]
    ELSE UsageLoop(allowed, Tail(entries), Append(acc, allowed[Head(entries)]))

\* the _key_usage list generate builds from its key_usage argument
BuildKeyUsage(allowed, key_usage) ==
    IF key_usage = None
    THEN [ok |-> TRUE, list |-> <<"KEY_AGR", "SIGN">>]
    ELSE UsageLoop(allowed, key_usage[1], <<>>)

\* c_keyusage = c_ubyte(sum(map(lambda ku: ku.value, _key_usage)))
KeyUsageMask(list) == c_ubyte(SumSeq([i \in 1..Len(list) |-> KeyUsageValue(list[i])]))

\* RSAKey.generate: key size -> [type code, DER header of the public key]
RsaKeyType(key_size) == IF key_size = 1024 THEN 65 ELSE 66

\* the header of a 2048-bit key for either key size
RsaHeader_Always2048(key_size) ==
    <<48, 130, 1, 34, 48, 13, 6, 9, 42, 134, 72, 134, 247, 13, 1, 1, 1, 5, 0>>

RsaHeader(key_size) ==
    IF key_size = 1024
    THEN <<48, 129, 159, 48, 13, 6, 9, 42, 134, 72, 134, 247, 13, 1, 1, 1, 5, 0>>
    ELSE <<48, 130, 1, 34, 48, 13, 6, 9, 42, 134, 72, 134, 247, 13, 1, 1, 1, 5, 0>>

\* sizes of the output buffers the operations allocate
EccPubBufLen == 150
RsaPubBufLen == 320
PrivBufLen == 104
RsaSigBufLen == 320

\* the wrapping with a length byte that counts the two header bytes too
EcdsaEncode_CountsHeader(s, slen) == <<48, c_ubyte(slen + 2)>> \o Take(s, slen)

\* ecdsa_sign's wrapping of the raw signature: s is the buffer the chip
\* wrote, slen the length it reported
EcdsaEncode(s, slen) == <<48, slen>> \o Take(s, slen)

\* the signature taken to be the whole buffer, whatever length was reported
Pkcs1v15Encode_WholeBuffer(s, slen) == s

\* pkcs1v15_sign's copy of the signature out of the buffer s the chip wrote,
\* slen the length it reported
Pkcs1v15Encode(s, slen) == Take(s, slen)

\* the payload check taking one byte for each character of a text
PayloadBytes_Latin1(data) ==
    IF data.type \notin {"bytes", "bytearray"}
    THEN IF data.type = "str"
         THEN [ok |-> TRUE, d |-> data.value, warned |-> TRUE]
         ELSE [ok |-> FALSE, d |-> <<>>, warned |-> FALSE]
    ELSE [ok |-> TRUE, d |-> data.value, warned |-> FALSE]

\* the payload check of both sign operations: the bytes to hash, whether the
\* conversion warning is raised, or the TypeError
PayloadBytes(data) ==
    IF data.type \notin {"bytes", "bytearray"}
    THEN IF data.type = "str"
         THEN [ok |-> TRUE, d |-> Utf8(data.value), warned |-> TRUE]
         ELSE [ok |-> FALSE, d |-> <<>>, warned |-> FALSE]
    ELSE [ok |-> TRUE, d |-> data.value, warned |-> FALSE]

\* the ECC slot check without the session contexts
EccSlotLegal_FixedOnly(key_id) == key_id \in ECC_KEY_IDS

\* the slot checks of the constructors
EccSlotLegal(key_id) == ~(key_id \notin ECC_KEY_IDS /\ key_id \notin session_id_values)
RsaSlotLegal(key_id) == ~(key_id # RSA_KEY_E0FC /\ key_id # RSA_KEY_E0FD)

-----------------------------------------------------------------------------
(* State.                                                                  *)

Self == obj[1]

\* the record of an operation before its outcome is filled in: the arguments
\* it was called with (None where the operation has no such argument), the
\* warning it raised, what it returned or raised
Op(name) ==
    [op |-> name, outcome |-> "returned", exc |-> "", kind |-> "", code |-> 0,
     cls |-> "", key_id |-> 0, warned |-> FALSE, export |-> FALSE,
     key_usage |-> None, sig |-> None, rnd |-> None,
     curve |-> None, key_size |-> None, data |-> None, hash_algorithm |-> None,
     n |-> None, trng |-> None]

Raised(rec, exc, kind, code) ==
    [rec EXCEPT !.outcome = "raised", !.exc = exc, !.kind = kind, !.code = code]

\* a signature object that does not take the slot of the key
Signature_SlotLost(hash_alg, key_id, signature, scheme) ==
    [hash_alg |-> hash_alg, id |-> 0, signature |-> signature,
     algorithm |-> <<hash_alg, scheme>>]

\* _Signature.__init__ through ECDSASignature / PKCS1v15Signature
Signature(hash_alg, key_id, signature, scheme) ==
    [hash_alg |-> hash_alg, id |-> key_id, signature |-> signature,
     algorithm |-> <<hash_alg, scheme>>]

\* a key object as its constructor leaves it
NewKey(cls, key_id, curve) ==
    [cls |-> cls, id |-> key_id, curve |-> curve, key_size |-> None,
     key_usage |-> None, pkey |-> None, key |-> None, hash_alg |-> None]

Init ==
    /\ obj = None
    /\ last = Op("none")
    /\ call = None

-----------------------------------------------------------------------------
(* Constructors.                                                           *)

EccInit(cls, key_id, curve) ==
    LET rec == [Op("init") EXCEPT !.cls = cls, !.key_id = key_id,
                                  !.curve = Some(curve)]
    IN  /\ obj = None
        /\ call' = None
        /\ IF EccSlotLegal(key_id)
           THEN /\ obj' = Some(NewKey(cls, key_id, curve))
                /\ last' = rec
           ELSE /\ obj' = None
                /\ last' = Raised(rec, "ValueError", "InvalidSlot", 0)

RsaInit(cls, key_id) ==
    LET rec == [Op("init") EXCEPT !.cls = cls, !.key_id = key_id]
    IN  /\ obj = None
        /\ call' = None
        /\ IF RsaSlotLegal(key_id)
           THEN /\ obj' = Some(NewKey(cls, key_id, ""))
                /\ last' = rec
           ELSE /\ obj' = None
                /\ last' = Raised(rec, "ValueError", "InvalidSlot", 0)

-----------------------------------------------------------------------------
(* generate.                                                               *)

\* a key pair generation call: its arguments and the chip's response r;
\* key_id is the slot the call points at, or None when it points at the
\* buffer for the exported key
GenCall(fn, type, c_keyusage, export, id, buflen, r) ==
    [fn |-> fn, type |-> type, usage |-> c_keyusage,
     export |-> IF export THEN 1 ELSE 0,
     key_id |-> IF export THEN None ELSE Some(c_ushort(id)),
     buflen |-> c_ushort(buflen), resp |-> r]

\* generate binding the fields before it looks at the status
GenReturn_BindsFirst(rec, ret, bound) ==
    /\ obj' = Some(bound)
    /\ last' = IF ret = 0 THEN rec ELSE Raised(rec, "IOError", "HardwareFault", ret)

\* generate raising the fault without the status it got
GenReturn_CodeDropped(rec, ret, bound) ==
    IF ret = 0
    THEN /\ obj' = Some(bound)
         /\ last' = rec
    ELSE /\ UNCHANGED obj
         /\ last' = Raised(rec, "IOError", "HardwareFault", 1)

\* the end of generate: on status 0 the object becomes bound and is
\* returned, any other status is raised and the object is left alone
GenReturn(rec, ret, bound) ==
    IF ret = 0
    THEN /\ obj' = Some(bound)
         /\ last' = rec
    ELSE /\ UNCHANGED obj
         /\ last' = Raised(rec, "IOError", "HardwareFault", ret)

\* the object after generate got status 0: the fields it binds in common
Bind(self, pub, key_usage, export, priv) ==
    [self EXCEPT !.pkey = Some(pub),
                 !.key = IF export THEN Some(priv) ELSE @,
                 !.key_usage = Some(key_usage)]

\* generate checking its arguments only after the transport call
GenRejected_AfterCall(rec, exc, kind) ==
    /\ last' = Raised(rec, exc, kind, 0)
    /\ call' = Some(GenCall("exp_optiga_crypt_ecc_generate_keypair", 0, 0, FALSE,
                            Self.id, EccPubBufLen, [ret |-> 0, seed |-> 0, plen |-> 0]))
    /\ UNCHANGED obj

\* a generate call that fails before the transport is reached
GenRejected(rec, exc, kind) ==
    /\ last' = Raised(rec, exc, kind, 0)
    /\ call' = None
    /\ UNCHANGED obj

\* ECCKey.generate / EccKey.generate
EccGenerate(curve, key_usage, export, responses) ==
    LET rec == [Op("generate") EXCEPT !.export = export, !.key_usage = key_usage,
                                      !.curve = Some(curve)]
        ku  == BuildKeyUsage(ecc_allowed_key_usage, key_usage)
        c   == str2curve(curve)
    IN  IF ~ku.ok THEN GenRejected(rec, "ValueError", "UnsupportedUsageFlag")
        ELSE IF c = None THEN GenRejected(rec, "ValueError", "UnsupportedCurve")
        ELSE IF c[1] \notin curves_values
        THEN GenRejected(rec, "TypeError", "UnsupportedCurve")
        ELSE \E r \in responses :
            LET pkey     == HwFill(EccPubBufLen, r.seed, r.plen)
                key      == HwFillPriv(PrivBufLen, r.seed, PrivBufLen)
                priv_key == Take(key, PrivBufLen)
                pub_key  == Take(pkey, r.plen)
            IN  /\ call' = Some(GenCall("exp_optiga_crypt_ecc_generate_keypair",
                                        c[1], KeyUsageMask(ku.list), export,
                                        Self.id, EccPubBufLen, r))
                /\ GenReturn(rec, r.ret,
                             [Bind(Self, pub_key, ku.list, export, priv_key)
                                 EXCEPT !.curve = curve])

\* RSAKey.generate / RsaKey.generate
RsaGenerate(key_size, key_usage, export, responses) ==
    LET rec == [Op("generate") EXCEPT !.export = export, !.key_usage = key_usage,
                                      !.key_size = Some(key_size)]
        ku  == BuildKeyUsage(rsa_allowed_key_usages, key_usage)
    IN  IF ~ku.ok THEN GenRejected(rec, "ValueError", "UnsupportedUsageFlag")
        ELSE IF key_size \notin {1024, 2048}
        THEN GenRejected(rec, "ValueError", "UnsupportedKeySize")
        ELSE \E r \in responses :
            LET pkey     == HwFill(RsaPubBufLen, r.seed, r.plen)
                key      == HwFillPriv(PrivBufLen, r.seed, PrivBufLen)
                priv_key == Take(key, PrivBufLen)
                pub_key  == Take(pkey, r.plen)
            IN  /\ call' = Some(GenCall("exp_optiga_crypt_ecc_generate_keypair",
                                        RsaKeyType(key_size), KeyUsageMask(ku.list),
                                        export, Self.id, RsaPubBufLen, r))
                /\ GenReturn(rec, r.ret,
                             [Bind(Self, RsaHeader(key_size) \o pub_key,
                                   ku.list, export, priv_key)
                                 EXCEPT !.key_size = Some(key_size)])

-----------------------------------------------------------------------------
(* sign.                                                                   *)

\* a sign call that fails before the transport is reached
SignRejected(rec, exc, kind) ==
    /\ last' = Raised(rec, exc, kind, 0)
    /\ call' = None
    /\ UNCHANGED obj

\* ECCKey.ecdsa_sign / EccKey.ecdsa_sign; the chip reports a length in lens
EcdsaSign(data, lens) ==
    LET p   == PayloadBytes(data)
        rec == [Op("ecdsa_sign") EXCEPT !.warned = p.warned, !.data = Some(data)]
    IN  IF ~p.ok THEN SignRejected(rec, "TypeError", "InvalidInputType")
        ELSE IF Self.curve \notin DOMAIN ecdsa_map
        THEN SignRejected(rec, "KeyError", "")
        ELSE LET param          == ecdsa_map[Self.curve]
                 digest         == Digest(param.name, p.d)
                 buflen         == EcdsaBufferLen(param.len)
                 hash_algorithm == param.name
                 c_slen         == c_ubyte(buflen)
             IN  \E r \in SignResponses(c_slen, lens) :
                 LET s == HwFill(buflen, r.seed, r.slen)
                 IN  /\ obj' = Some([Self EXCEPT !.hash_alg = Some(hash_algorithm)])
                     /\ call' = Some([fn |-> "exp_optiga_crypt_ecdsa_sign",
                                      digest |-> digest,
                                      digest_len |-> c_ubyte(param.len),
                                      key_id |-> c_ushort(Self.id),
                                      buflen |-> c_slen, resp |-> r])
                     /\ IF r.ret = 0
                        THEN last' = [rec EXCEPT !.sig =
                                        Some(Signature(hash_algorithm, Self.id,
                                                       EcdsaEncode(s, c_ubyte(r.slen)),
                                                       "ecdsa"))]
                        ELSE last' = Raised(rec, "IOError", "HardwareFault", r.ret)

\* RSAKey.pkcs1v15_sign / RsaKey.pkcs1v15_sign; the chip reports a length in lens
Pkcs1v15Sign(data, hash_algorithm, lens) ==
    LET p   == PayloadBytes(data)
        rec == [Op("pkcs1v15_sign") EXCEPT !.warned = p.warned, !.data = Some(data),
                                           !.hash_algorithm = Some(hash_algorithm)]
    IN  IF ~p.ok THEN SignRejected(rec, "TypeError", "InvalidInputType")
        ELSE IF hash_algorithm \notin {"sha256", "sha384"}
        THEN SignRejected(rec, "ValueError", "UnsupportedHashAlgorithm")
        ELSE LET digest_len  == IF hash_algorithm = "sha256" THEN 32 ELSE 48
                 sign_scheme == IF hash_algorithm = "sha256" THEN 1 ELSE 2
                 digest      == Digest(hash_algorithm, p.d)
                 c_slen      == c_uint(RsaSigBufLen)
             IN  \E r \in SignResponses(c_slen, lens) :
                 LET s == HwFill(RsaSigBufLen, r.seed, r.slen)
                 IN  /\ UNCHANGED obj
                     /\ call' = Some([fn |-> "exp_optiga_crypt_rsa_sign",
                                      scheme |-> sign_scheme,
                                      digest |-> digest,
                                      digest_len |-> digest_len,
                                      key_id |-> Self.id,
                                      buflen |-> c_slen, resp |-> r])
                     /\ IF r.ret = 0
                        THEN last' = [rec EXCEPT !.sig =
                                        Some(Signature(hash_algorithm, Self.id,
                                                       Pkcs1v15Encode(s, c_uint(r.slen)),
                                                       "rsa"))]
                        ELSE last' = Raised(rec, "IOError", "HardwareFault", r.ret)

-----------------------------------------------------------------------------
(* random.                                                                 *)

\* random raising the status of the chip as generate and sign do
random_RaisesOnFault(n, trng, r) ==
    LET rec == [Op("random") EXCEPT !.n = Some(n), !.trng = Some(trng)]
        p   == HwFill(n, r.seed, c_ushort(n))
    IN  /\ UNCHANGED obj
        /\ IF n < 0
           THEN /\ call' = None
                /\ last' = Raised(rec, "ValueError", "", 0)
           ELSE /\ call' = Some([fn |-> "exp_optiga_crypt_random",
                                 rng |-> IF trng = "True" THEN RngValue("TRNG")
                                                          ELSE RngValue("DRNG"),
                                 len |-> c_ushort(n), resp |-> r])
                /\ last' = IF r.ret = 0
                           THEN [rec EXCEPT !.rnd = Some(Take(p, n))]
                           ELSE Raised(rec, "IOError", "HardwareFault", r.ret)

\* crypto.random(n, trng) answered by the chip with r; trng is "True",
\* "False" or another Python value, and `trng is True` holds of "True" only.
\* A negative n fails in (c_ubyte * n)() before the chip is called.  The
\* chip is told the length as a c_ushort and fills that many bytes of p.
random(n, trng, r) ==
    LET rec == [Op("random") EXCEPT !.n = Some(n), !.trng = Some(trng)]
        p   == HwFill(n, r.seed, c_ushort(n))
    IN  /\ UNCHANGED obj
        /\ IF n < 0
           THEN /\ call' = None
                /\ last' = Raised(rec, "ValueError", "", 0)
           ELSE /\ call' = Some([fn |-> "exp_optiga_crypt_random",
                                 rng |-> IF trng = "True" THEN RngValue("TRNG")
                                                          ELSE RngValue("DRNG"),
                                 len |-> c_ushort(n), resp |-> r])
                /\ last' = [rec EXCEPT !.rnd = IF r.ret = 0 THEN Some(Take(p, n))
                                                            ELSE Some(ZeroBytes(0))]

-----------------------------------------------------------------------------
(* The life of a key object of crypto.py.                                  *)

HasKey(cls) == obj # None /\ Self.cls = cls

\* ECCKey(key_id, curve)
ECCKey_init ==
    \E key_id \in KeyIdInputs, curve \in InitCurveInputs : EccInit("ECCKey", key_id, curve)

\* RSAKey(key_id)
RSAKey_init == \E key_id \in KeyIdInputs : RsaInit("RSAKey", key_id)

\* ECCKey.generate(curve, key_usage, export)
ECCKey_generate ==
    /\ HasKey("ECCKey")
    /\ \E curve \in GenCurveInputs, key_usage \in GenUsageInputs, export \in BOOLEAN :
          EccGenerate(curve, key_usage, export, GenResponses)

\* RSAKey.generate(key_size, key_usage, export)
RSAKey_generate ==
    /\ HasKey("RSAKey")
    /\ \E key_size \in KeySizeInputs, key_usage \in GenUsageInputs, export \in BOOLEAN :
          RsaGenerate(key_size, key_usage, export, GenResponses)

\* ecdsa_sign refusing a key object that was never generated
ECCKey_ecdsa_sign_GeneratedOnly ==
    /\ HasKey("ECCKey")
    /\ \E data \in PayloadInputs :
          IF Self.pkey = None
          THEN SignRejected(Op("ecdsa_sign"), "ValueError", "NotGenerated")
          ELSE EcdsaSign(data, ShortLens)

\* ECCKey.ecdsa_sign(data)
ECCKey_ecdsa_sign ==
    /\ HasKey("ECCKey")
    /\ \E data \in PayloadInputs : EcdsaSign(data, ShortLens)

\* RSAKey.pkcs1v15_sign(data, hash_algorithm)
RSAKey_pkcs1v15_sign ==
    /\ HasKey("RSAKey")
    /\ \E data \in PayloadInputs, hash_algorithm \in HashInputs :
          Pkcs1v15Sign(data, hash_algorithm, ShortLens)

Next ==
    \/ ECCKey_init
    \/ RSAKey_init
    \/ ECCKey_generate
    \/ RSAKey_generate
    \/ ECCKey_ecdsa_sign
    \/ RSAKey_pkcs1v15_sign

Spec == Init /\ [][Next]_vars

-----------------------------------------------------------------------------
(* The constructors over every slot id of SlotRange.                       *)

Slots_ECCKey_init ==
    \E key_id \in SlotRange, curve \in CurveInputs : EccInit("ECCKey", key_id, curve)

Slots_RSAKey_init == \E key_id \in SlotRange : RsaInit("RSAKey", key_id)

Slots_EccKey_init ==
    \E key_id \in SlotRange, curve \in CurveInputs : EccInit("EccKey", key_id, curve)

Slots_RsaKey_init == \E key_id \in SlotRange : RsaInit("RsaKey", key_id)

NextSlots ==
    \/ Slots_ECCKey_init
    \/ Slots_RSAKey_init
    \/ Slots_EccKey_init
    \/ Slots_RsaKey_init

SpecSlots == Init /\ [][NextSlots]_vars

-----------------------------------------------------------------------------
(* generate over every key_usage argument of UsageInputs, on one slot,     *)
(* with one curve or key size and no export.                               *)

Usage_ECCKey_init == EccInit("ECCKey", 57584, "secp256r1")

Usage_RSAKey_init == RsaInit("RSAKey", RSA_KEY_E0FC)

Usage_ECCKey_generate ==
    /\ HasKey("ECCKey")
    /\ \E key_usage \in UsageInputs :
          EccGenerate("secp256r1", key_usage, FALSE, OneGenResponses)

Usage_RSAKey_generate ==
    /\ HasKey("RSAKey")
    /\ \E key_usage \in UsageInputs :
          RsaGenerate(1024, key_usage, FALSE, OneGenResponses)

NextUsage ==
    \/ Usage_ECCKey_init
    \/ Usage_RSAKey_init
    \/ Usage_ECCKey_generate
    \/ Usage_RSAKey_generate

SpecUsage == Init /\ [][NextUsage]_vars

-----------------------------------------------------------------------------
(* ECDSA signing with every curve and every signature length of EcdsaLens, *)
(* by the key classes of both modules.                                     *)

Ecdsa_ECCKey_init == \E curve \in CurveInputs : EccInit("ECCKey", 57584, curve)

Ecdsa_EccKey_init == \E curve \in CurveInputs : EccInit("EccKey", 57584, curve)

Ecdsa_ECCKey_generate ==
    /\ HasKey("ECCKey")
    /\ \E curve \in CurveInputs : EccGenerate(curve, None, FALSE, OneGenResponses)

Ecdsa_EccKey_generate ==
    /\ HasKey("EccKey")
    /\ \E curve \in CurveInputs : EccGenerate(curve, None, FALSE, OneGenResponses)

Ecdsa_ECCKey_ecdsa_sign ==
    /\ HasKey("ECCKey")
    /\ \E data \in PayloadInputs : EcdsaSign(data, EcdsaLens)

Ecdsa_EccKey_ecdsa_sign ==
    /\ HasKey("EccKey")
    /\ \E data \in PayloadInputs : EcdsaSign(data, EcdsaLens)

NextEcdsa ==
    \/ Ecdsa_ECCKey_init
    \/ Ecdsa_EccKey_init
    \/ Ecdsa_ECCKey_generate
    \/ Ecdsa_EccKey_generate
    \/ Ecdsa_ECCKey_ecdsa_sign
    \/ Ecdsa_EccKey_ecdsa_sign

SpecEcdsa == Init /\ [][NextEcdsa]_vars

-----------------------------------------------------------------------------
(* RSA keys of both modules: generate with every key size, pkcs1v15_sign   *)
(* with every hash name and every signature length of RsaLens; default     *)
(* usage, no export.                                                       *)

Rsa_RSAKey_init == \E key_id \in {RSA_KEY_E0FC, RSA_KEY_E0FD} : RsaInit("RSAKey", key_id)

Rsa_RsaKey_init == RsaInit("RsaKey", RSA_KEY_E0FC)

Rsa_RSAKey_generate ==
    /\ HasKey("RSAKey")
    /\ \E key_size \in KeySizeInputs : RsaGenerate(key_size, None, FALSE, GenResponses)

Rsa_RsaKey_generate ==
    /\ HasKey("RsaKey")
    /\ \E key_size \in KeySizeInputs : RsaGenerate(key_size, None, FALSE, GenResponses)

Rsa_RSAKey_pkcs1v15_sign ==
    /\ HasKey("RSAKey")
    /\ \E data \in PayloadInputs, hash_algorithm \in HashInputs :
          Pkcs1v15Sign(data, hash_algorithm, RsaLens)

Rsa_RsaKey_pkcs1v15_sign ==
    /\ HasKey("RsaKey")
    /\ \E data \in PayloadInputs, hash_algorithm \in HashInputs :
          Pkcs1v15Sign(data, hash_algorithm, RsaLens)

NextRsa ==
    \/ Rsa_RSAKey_init
    \/ Rsa_RsaKey_init
    \/ Rsa_RSAKey_generate
    \/ Rsa_RsaKey_generate
    \/ Rsa_RSAKey_pkcs1v15_sign
    \/ Rsa_RsaKey_pkcs1v15_sign

SpecRsa == Init /\ [][NextRsa]_vars

-----------------------------------------------------------------------------
(* random, which needs no key object.                                      *)

crypto_random ==
    \E n \in RandomLenInputs, trng \in TrngInputs, r \in RandomResponses :
        random(n, trng, r)

NextRandom == crypto_random

SpecRandom == Init /\ [][NextRandom]_vars

-----------------------------------------------------------------------------
(* Properties.                                                             *)

SignOps == {"ecdsa_sign", "pkcs1v15_sign"}

\* the errors with which an operation rejects its arguments
RejectionKinds == {"UnsupportedUsageFlag", "UnsupportedCurve", "UnsupportedKeySize",
                   "UnsupportedHashAlgorithm", "InvalidInputType"}

\* the step is a call of generate / of a sign operation
GenerateStep == last'.op = "generate"
SignStep == last'.op \in SignOps

\* the chip's response to the transport call of the last operation
Resp == call[1].resp

\* C1: a constructor returns a key object exactly when the slot is legal for
\* the kind of key: for an ECC key one of 0xe0f0..0xe0f3 or a session
\* context, for an RSA key 0xe0fc or 0xe0fd; with any other slot it raises
\* InvalidSlot and there is no key object.
C1_ConstructIffSlotLegal ==
    last.op = "init" =>
        LET legal == IF last.cls \in {"ECCKey", "EccKey"}
                     THEN last.key_id \in (57584..57587) \cup session_id_values
                     ELSE last.key_id \in {57596, 57597}
        IN  IF legal
            THEN /\ last.outcome = "returned"
                 /\ obj # None
                 /\ Self.id = last.key_id
                 /\ Self.cls = last.cls
            ELSE /\ last.outcome = "raised"
                 /\ last.kind = "InvalidSlot"
                 /\ obj = None

\* an ECC key was constructed on the last session context
C1_Witness ==
    /\ last.op = "init" /\ last.cls = "ECCKey" /\ last.key_id = 57603
    /\ obj # None /\ Self.id = 57603

\* C2 as claimed: the public key is absent until a generate succeeds, and
\* once set no later generate or sign call changes it.
C2_PublicKeyNeverChanges ==
    [][/\ obj = None /\ obj' # None => obj'[1].pkey = None
       /\ obj # None =>
            /\ obj' # None
            /\ Self.pkey = None /\ obj'[1].pkey # None =>
                   GenerateStep /\ last'.outcome = "returned"
            /\ Self.pkey # None => obj'[1].pkey = Self.pkey]_vars

\* C2 as amended: the public key is absent until a generate succeeds; a
\* sign call or a failed generate leaves it as it is; every successful
\* generate sets it to the public key the chip returned for that call.
C2_PublicKeySetByGenerateOnly ==
    [][/\ obj = None /\ obj' # None => obj'[1].pkey = None
       /\ obj # None =>
            /\ obj' # None
            /\ IF GenerateStep /\ last'.outcome = "returned"
               THEN LET r   == call'[1].resp
                        raw == [i \in 1..r.plen |-> HwByte(r.seed, i)]
                    IN  obj'[1].pkey = Some(IF Self.cls \in {"RSAKey", "RsaKey"}
                                            THEN RsaHeader(obj'[1].key_size[1]) \o raw
                                            ELSE raw)
               ELSE obj'[1].pkey = Self.pkey]_vars

\* a generate failed on an object that holds a public key
C2_Witness ==
    /\ obj # None /\ Self.pkey # None
    /\ last.op = "generate" /\ last.kind = "HardwareFault"

\* C3 as claimed: after a successful generate without export the object
\* holds no private key.
C3_NoPrivateKeyUnlessExported ==
    (obj # None /\ last.op = "generate" /\ last.outcome = "returned" /\ ~last.export)
        => Self.key = None

\* C4: when the transport returns a non-zero status to generate, generate
\* raises HardwareFault with that status and leaves every field of the key
\* object as it was.
C4_FaultLeavesKeyUntouched ==
    [][(GenerateStep /\ call' # None /\ call'[1].resp.ret # 0) =>
            /\ last'.outcome = "raised"
            /\ last'.kind = "HardwareFault"
            /\ last'.code = call'[1].resp.ret
            /\ obj' = obj]_vars

\* generate failed with status 0x8007 on an object that holds an exported
\* private key
C4_Witness ==
    /\ obj # None /\ Self.key # None /\ Self.pkey # None
    /\ last.op = "generate" /\ last.kind = "HardwareFault" /\ last.code = 32775

\* C5: a generate or sign call that rejects its arguments issues no
\* transport call and leaves every field of the key object as it was.
C5_RejectionBeforeTransport ==
    [][((GenerateStep \/ SignStep) /\ last'.outcome = "raised"
                                   /\ last'.kind \in RejectionKinds) =>
            /\ call' = None
            /\ obj' = obj]_vars

\* pkcs1v15_sign rejected its hash algorithm on a generated key
C5_Witness ==
    /\ obj # None /\ Self.pkey # None
    /\ last.op = "pkcs1v15_sign" /\ last.kind = "UnsupportedHashAlgorithm"
    /\ call = None

\* C6 as claimed: a sign operation on a key object that was never generated
\* issues no transport call and returns no signature.
C6_NoSignBeforeGenerate ==
    (obj # None /\ last.op \in SignOps /\ Self.pkey = None)
        => call = None /\ last.sig = None

\* C6 as amended: a sign operation never fails for the key not having been
\* generated.  It fails only for its payload, its hash algorithm, a curve
\* name given at construction that the digest table does not hold, or a
\* fault of the chip; in every other case it has called the chip for the
\* slot of the object and returns a signature, whether or not generate has
\* succeeded on the object.
C6_SignNeedsNoGenerate ==
    (obj # None /\ last.op \in SignOps) =>
        \/ last.outcome = "raised" /\ call = None
              /\ last.kind \in {"InvalidInputType", "UnsupportedHashAlgorithm"}
        \/ last.outcome = "raised" /\ call = None /\ last.exc = "KeyError"
              /\ Self.curve \notin CurveNames /\ Self.pkey = None
        \/ last.outcome = "raised" /\ call # None /\ last.kind = "HardwareFault"
              /\ Resp.ret # 0 /\ last.code = Resp.ret /\ call[1].key_id = Self.id
        \/ last.outcome = "returned" /\ call # None /\ Resp.ret = 0
              /\ call[1].key_id = Self.id /\ last.sig # None

\* an ECC key that was never generated has signed
C6_Witness ==
    /\ obj # None /\ Self.cls = "ECCKey" /\ Self.pkey = None
    /\ last.op = "ecdsa_sign" /\ last.outcome = "returned" /\ last.sig # None

\* the last operation is an ecdsa_sign to which the chip answered status 0
EcdsaSigned == last.op = "ecdsa_sign" /\ call # None /\ Resp.ret = 0

\* the raw signature the chip returned to the last operation
RawSignature == [i \in 1..Resp.slen |-> HwByte(Resp.seed, i)]

\* C7: when the chip answers an ECDSA sign with status 0 and a raw signature
\* of L < 128 bytes, the signature returned is the byte 0x30, one byte equal
\* to L, and the L raw bytes in order: L + 2 bytes in all.
C7_EcdsaShortForm ==
    (EcdsaSigned /\ Resp.slen < 128) =>
        /\ last.sig # None
        /\ Len(last.sig[1].signature) = Resp.slen + 2
        /\ last.sig[1].signature = <<48, Resp.slen>> \o RawSignature

\* a raw signature of 127 bytes was wrapped
C7_Witness == EcdsaSigned /\ Resp.slen = 127 /\ last.sig # None

\* C8 as claimed: a raw signature of L >= 128 bytes is wrapped with the
\* long form of the DER length, 0x81 followed by L, and not with a single
\* length byte equal to L.
C8_EcdsaLongForm ==
    (EcdsaSigned /\ Resp.slen >= 128) =>
        /\ last.sig # None
        /\ last.sig[1].signature = <<48, 129, Resp.slen>> \o RawSignature

\* the flags whose bit is set in a usage mask
DecodeUsage(mask) ==
    {f \in {"key_agreement", "authentication", "encryption", "signature"} :
        (mask \div KeyUsageValue(rsa_allowed_key_usages[f])) % 2 = 1}

\* the flags a key_usage list names
Requested(list) == {list[i] : i \in 1..Len(list)}

\* C9 as claimed: generate with key_usage None or empty sends the mask of
\* {key_agreement, signature}, and when it succeeds the usage of the key is
\* {key_agreement, signature}.
C9_DefaultUsage ==
    (obj # None /\ last.op = "generate" /\ last.key_usage \in {None, Some(<<>>)}) =>
        /\ call # None
        /\ DecodeUsage(call[1].usage) = {"key_agreement", "signature"}
        /\ call[1].usage = 48
        /\ last.outcome = "returned" =>
               /\ Self.key_usage # None
               /\ Requested(Self.key_usage[1]) = {"KEY_AGR", "SIGN"}

\* C10: when generate is asked for a non-empty set of flags the kind allows,
\* the usage mask it sends to the chip has the bit of a flag set exactly
\* when the flag was requested.
C10_UsageRoundTrip ==
    (obj # None /\ last.op = "generate" /\ last.key_usage # None) =>
        LET list    == last.key_usage[1]
            allowed == IF Self.cls \in {"ECCKey", "EccKey"}
                       THEN {"key_agreement", "authentication", "signature"}
                       ELSE {"key_agreement", "authentication", "encryption",
                             "signature"}
        IN  (/\ list # <<>>
             /\ Requested(list) \subseteq allowed
             /\ Cardinality(Requested(list)) = Len(list)) =>
                /\ call # None
                /\ DecodeUsage(call[1].usage) = Requested(list)

\* generate was asked for the four flags of an RSA key
C10_Witness ==
    /\ obj # None /\ Self.cls = "RSAKey"
    /\ last.op = "generate" /\ last.key_usage # None
    /\ Requested(last.key_usage[1]) =
           {"key_agreement", "authentication", "encryption", "signature"}
    /\ Len(last.key_usage[1]) = 4
    /\ call # None /\ call[1].usage = 51

DigestOfCurve(curve) ==
    CASE curve \in {"secp256r1", "brainpoolp256r1"} -> [name |-> "sha256", len |-> 32]
      [] curve \in {"secp384r1", "brainpoolp384r1"} -> [name |-> "sha384", len |-> 48]
      [] curve \in {"secp521r1", "brainpoolp512r1"} -> [name |-> "sha512", len |-> 64]

\* C12: the curve bound to an ECC key is the curve given at construction
\* until a generate succeeds, and from then on the curve of the most recent
\* successful generate.  ecdsa_sign takes its digest from that curve alone:
\* sha256 / 32 bytes for the 256-bit curves, sha384 / 48 for the 384-bit
\* curves, sha512 / 64 for secp521r1 and brainpoolp512r1.  The chip receives
\* a digest of that algorithm and that length, and the signature returned
\* records the digest name and the tag '<digest>_ecdsa'.
C12_DigestFromBoundCurve ==
    [][/\ (obj = None /\ obj' # None) => obj'[1].curve = last'.curve[1]
       /\ obj # None =>
            /\ obj' # None
            /\ obj'[1].curve = IF GenerateStep /\ last'.outcome = "returned"
                               THEN last'.curve[1]
                               ELSE Self.curve
            /\ (last'.op = "ecdsa_sign" /\ Self.curve \in CurveNames
                                        /\ last'.kind # "InvalidInputType") =>
                  LET d == DigestOfCurve(Self.curve)
                  IN  /\ call' # None
                      /\ call'[1].digest.alg = d.name
                      /\ call'[1].digest_len = d.len
                      /\ call'[1].resp.ret = 0 =>
                            /\ last'.sig # None
                            /\ last'.sig[1].hash_alg = d.name
                            /\ last'.sig[1].algorithm = <<d.name, "ecdsa">>]_vars

\* a key generated on secp521r1 has signed with sha512
C12_Witness ==
    /\ obj # None /\ Self.curve = "secp521r1" /\ Self.pkey # None
    /\ last.op = "ecdsa_sign" /\ last.sig # None
    /\ last.sig[1].hash_alg = "sha512"
    /\ last.sig[1].algorithm = <<"sha512", "ecdsa">>
    /\ call[1].digest_len = 64

\* the last operation is a generate on an RSA key
RsaGenerated == obj # None /\ Self.cls \in {"RSAKey", "RsaKey"} /\ last.op = "generate"

\* the raw public key the chip returned to the last operation
RawPublicKey == [i \in 1..Resp.plen |-> HwByte(Resp.seed, i)]

\* C13: RSA generate sends type code 0x41 for key_size 1024 and 0x42 for
\* key_size 2048; on status 0 the public key of the object is the fixed
\* header of that key size followed by exactly the raw public key bytes of
\* the length the chip reported; any other key size raises
\* UnsupportedKeySize.
C13_RsaTypeCodeAndHeader ==
    RsaGenerated =>
        LET key_size == last.key_size[1]
            header   == IF key_size = 1024
                        THEN <<48, 129, 159, 48, 13, 6, 9, 42, 134, 72, 134, 247,
                               13, 1, 1, 1, 5, 0>>
                        ELSE <<48, 130, 1, 34, 48, 13, 6, 9, 42, 134, 72, 134, 247,
                               13, 1, 1, 1, 5, 0>>
        IN  IF key_size \in {1024, 2048}
            THEN /\ call # None
                 /\ call[1].type = IF key_size = 1024 THEN 65 ELSE 66
                 /\ Resp.ret = 0 =>
                       /\ last.outcome = "returned"
                       /\ Self.key_size = Some(key_size)
                       /\ Self.pkey = Some(header \o RawPublicKey)
                       /\ Len(Self.pkey[1]) = Len(header) + Resp.plen
            ELSE /\ last.outcome = "raised"
                 /\ last.kind = "UnsupportedKeySize"
                 /\ call = None

\* a 1024-bit key was generated and the chip returned a public key that is
\* not empty
C13_Witness ==
    /\ RsaGenerated /\ last.key_size = Some(1024) /\ last.outcome = "returned"
    /\ call[1].type = 65 /\ Resp.plen > 0
    /\ Len(Self.pkey[1]) = 18 + Resp.plen

\* the last operation is a pkcs1v15_sign to which the chip answered status 0
RsaSigned == last.op = "pkcs1v15_sign" /\ call # None /\ Resp.ret = 0

\* C14: when pkcs1v15_sign is called with sha256 or sha384 and the chip
\* answers status 0 with length n, the signature returned is exactly the
\* first n bytes the chip wrote, with no header, and it records the hash
\* name given, the slot of the key and the tag '<hash>_rsa'.
C14_RsaSignatureAsReturned ==
    /\ RsaSigned =>
          /\ last.hash_algorithm[1] \in {"sha256", "sha384"}
          /\ last.sig # None
          /\ Len(last.sig[1].signature) = Resp.slen
          /\ last.sig[1].signature = RawSignature
          /\ last.sig[1].hash_alg = last.hash_algorithm[1]
          /\ last.sig[1].id = Self.id
          /\ last.sig[1].algorithm = <<last.hash_algorithm[1], "rsa">>
    /\ (/\ obj # None /\ last.op = "pkcs1v15_sign"
        /\ last.hash_algorithm[1] \in {"sha256", "sha384"}
        /\ last.data[1].type \in {"bytes", "bytearray", "str"}) => call # None

\* a signature of 256 bytes was returned for sha384
C14_Witness ==
    /\ RsaSigned /\ Resp.slen = 256 /\ last.hash_algorithm = Some("sha384")
    /\ last.sig # None /\ Len(last.sig[1].signature) = 256

\* C15: random(n) returns exactly the n bytes the chip filled when the chip
\* answers status 0, and returns the empty byte string, raising nothing,
\* when the chip answers any other status; it asks for the true random
\* source when trng is True and for the deterministic source otherwise.
C15_RandomSwallowsFault ==
    (last.op = "random" /\ last.n[1] >= 0) =>
        /\ call # None
        /\ call[1].fn = "exp_optiga_crypt_random"
        /\ call[1].len = last.n[1]
        /\ call[1].rng = IF last.trng[1] = "True" THEN RngValue("TRNG")
                                                  ELSE RngValue("DRNG")
        /\ last.outcome = "returned"
        /\ last.rnd # None
        /\ IF Resp.ret = 0
           THEN /\ Len(last.rnd[1]) = last.n[1]
                /\ last.rnd[1] = [i \in 1..last.n[1] |-> HwByte(Resp.seed, i)]
           ELSE last.rnd[1] = <<>>

\* eight bytes were asked of the deterministic source and the chip failed
C15_Witness ==
    /\ last.op = "random" /\ last.n = Some(8) /\ last.trng = Some("False")
    /\ call # None /\ Resp.ret = 263 /\ call[1].rng = RngValue("DRNG")
    /\ last.outcome = "returned" /\ last.rnd = Some(<<>>)

\* C16: the slot id of a key object is the one given at construction and no
\* generate or sign call, successful or failed, changes it; every signing
\* call to the chip carries it and every signature returned records it.
C16_SlotNeverChanges ==
    [][/\ (obj = None /\ obj' # None) => obj'[1].id = last'.key_id
       /\ obj # None =>
            /\ obj' # None
            /\ obj'[1].id = Self.id
            /\ (SignStep /\ call' # None) => call'[1].key_id = Self.id
            /\ (SignStep /\ last'.sig # None) => last'.sig[1].id = Self.id
            /\ (GenerateStep /\ call' # None /\ ~last'.export) =>
                    call'[1].key_id = Some(Self.id)]_vars

\* a key on the session context 0xE103 was generated and has signed
C16_Witness ==
    /\ obj # None /\ Self.id = 57603 /\ Self.pkey # None
    /\ last.op = "ecdsa_sign" /\ last.sig # None
    /\ last.sig[1].id = 57603 /\ call[1].key_id = 57603

\* C17: ecdsa_sign and pkcs1v15_sign given a text raise the conversion
\* warning and hand the chip the digest of the UTF-8 bytes of the text, the
\* digest they hand it when given those bytes; given bytes or a bytearray
\* they raise no warning and digest the payload as it is; given anything
\* else they raise InvalidInputType.
C17_TextSignedAsUtf8 ==
    (obj # None /\ last.op \in SignOps) =>
        LET data == last.data[1]
        IN  CASE data.type = "str" ->
                   /\ last.warned
                   /\ last.kind # "InvalidInputType"
                   /\ call # None =>
                         /\ call[1].digest.msg = Utf8(data.value)
                         /\ \A b \in PayloadInputs :
                               (b.type = "bytes" /\ b.value = Utf8(data.value)) =>
                                   call[1].digest = Digest(call[1].digest.alg, b.value)
              [] data.type \in {"bytes", "bytearray"} ->
                   /\ ~last.warned
                   /\ last.kind # "InvalidInputType"
                   /\ call # None => call[1].digest.msg = data.value
              [] OTHER ->
                   /\ last.outcome = "raised" /\ last.exc = "TypeError"
                   /\ last.kind = "InvalidInputType"
                   /\ ~last.warned /\ call = None

\* the text 'h\xe9' was signed: the chip got the digest of the three bytes
\* 68 c3 a9
C17_Witness ==
    /\ obj # None /\ last.op \in SignOps /\ last.outcome = "returned"
    /\ last.data = Some([type |-> "str", value |-> <<104, 233>>])
    /\ last.warned
    /\ call # None /\ call[1].digest.msg = <<104, 195, 169>>

\* C18 as claimed: RSA generate with valid parameters sends its key pair
\* generation request through the RSA entry point of the transport, the one
\* whose argument and result types it has just configured, and never
\* through the ECC entry point.
C18_RsaGenerateEntryPoint ==
    (RsaGenerated /\ call # None) =>
        /\ call[1].fn = "exp_optiga_crypt_rsa_generate_keypair"
        /\ call[1].fn # "exp_optiga_crypt_ecc_generate_keypair"

=============================================================================
